---- MODULE Spec2Model ----
(***************************************************************************)
(* Lifecycle of the Playwright MCP tool server in reneczka/poc-mcp.        *)
(*                                                                         *)
(* One behaviour is one run of one entry point (variable driver):          *)
(*   "cms"   server_manager.create_mcp_servers around an opaque body       *)
(*   "poc"   agent_poc_agents_sdk.main                                     *)
(*   "calls" a caller invoking PlaywrightServerManager.start_server and    *)
(*           stop_server in any order on one manager                       *)
(*   "probe" one call of mcp_utils.wait_http_ok(url, deadline)             *)
(*   "alloc" successive calls of mcp_utils.find_free_port                  *)
(*   "parse" one call of main._parse_records (specification SpecParse)     *)
(*   "main"  main.main over the sources of the store (SpecMain)            *)
(*   "stream" two calls of AgentRunner.run_agent_streamed (SpecStream)     *)
(*                                                                         *)
(* Time is counted in ticks of one poll interval (0.2 s) and advances only *)
(* inside the readiness probe. Everything observable is appended to trace. *)
(***************************************************************************)
EXTENDS Integers, Sequences, FiniteSets, TLC

\* ---- bounds of the model
MaxCalls == 3      \* calls made by the "calls" driver; also the number of pids
MaxT == 3          \* largest readiness timeout given to the "probe" driver

\* ---- program constants, in ticks of 0.2 s
PollTicks == 1                  \* time.sleep(0.2)
UrlopenTimeoutTicks == 10       \* urlopen(url, timeout=2)
MCP_READY_WAIT_TICKS == 150     \* MCP_READY_WAIT_SECONDS = 30
\* urlopen's timeout bounds each blocking socket operation: the connect, then
\* the read of the response. A failed attempt lasts at most both.
MaxAttemptTicks == 2 * UrlopenTimeoutTicks

NoUrl == "none"
ExternalUrl == "external"       \* PLAYWRIGHT_MCP_URL / external_url
ManagedUrl == "managed"         \* http://127.0.0.1:<port>/mcp (or /sse)

MaxPort == 3                    \* ports of the host: 1..MaxPort
Ports == 1..MaxPort

ExtPid == 0                     \* a local server this program did not spawn
Pids == 1..MaxCalls             \* pids of the processes Popen creates
AllPids == 0..MaxCalls
ProcStates == {"unborn", "alive", "killed", "dead"}

VARIABLES
    driver,          \* which entry point runs
    pc,              \* position of the single foreground task
    exc,             \* exception in flight / raised by the last call
    external_url,    \* PlaywrightServerManager.external_url, MCP_EXTERNAL_SSE_URL
    airtable,        \* Airtable configured (is_complete() / AIRTABLE_API_KEY)
    server_process,  \* the Popen handle: 0 is None, else the pid
    server_url,      \* PlaywrightServerManager.server_url / url
    startRet,        \* the endpoint start() handed to its caller
    proc,            \* the OS view of each process
    listening,       \* the probed endpoint answers requests
    answered,        \* the endpoint of the run has answered at some time
    toOpen,          \* sessions still to enter, in order
    open,            \* stack of entered sessions
    trace,           \* recorded call order
    nCalls,          \* calls made by the "calls" driver
    now,             \* time.time() in ticks
    deadline,        \* the probe's deadline
    probeRet,        \* what wait_http_ok returned
    lastStatus,      \* status of the last response the probe received, 0: none
    output_text,     \* the final text handed to _parse_records
    payload,         \* the JSON array output_text was written around, if any
    records,         \* what _parse_records returned
    sock,            \* the port find_free_port's socket is bound to, 0: closed
    taken,           \* the ports other sockets of the host are bound to
    ports,           \* the ports find_free_port returned, in order
    cfg,             \* main: what the environment of the run provides
    sources,         \* main: the source records fetched from the store
    cursor,          \* main: position of the loop in sources, 0 before it
    running,         \* main: the sources whose agent run is in progress
    outputs,         \* main: what the agent runs returned, in order
    all_records,     \* main: the records collected so far
    created,         \* main: the lists handed to create_records, in order
    events,          \* stream: the event stream of each of the two runs
    control,         \* stream: the steps run_agent_streamed took, per run
    returned,        \* stream: what the call ended with, per run
    panels           \* stream: the texts printed, per run

vars == <<driver, pc, exc, external_url, airtable, server_process, server_url,
          startRet, proc, listening, answered, toOpen, open, trace, nCalls, now,
          deadline, probeRet, lastStatus, output_text, payload, records,
          sock, taken, ports,
          cfg, sources, cursor, running, outputs, all_records, created,
          events, control, returned, panels>>

Ev(e, a, p) == [ev |-> e, arg |-> a, pid |-> p]
Sig(s, p) == Ev("sig", s, p)
Log(evs) == trace' = trace \o evs

\* What main finds in its environment: validate_and_setup_environment
\* passes, AirtableConfig.is_configured(), sources_table_id is set.
Cfgs == [valid : BOOLEAN, configured : BOOLEAN, table : BOOLEAN]
NoCfg == [valid |-> FALSE, configured |-> FALSE, table |-> FALSE]

\* The two calls of run_agent_streamed that are compared.
Runs == {1, 2}
NoRuns == [r \in Runs |-> <<>>]

\* JSON values: t is "num", "str" or "list"
NumVal(digits) == [t |-> "num", s |-> digits, items |-> <<>>]
StrVal(chars) == [t |-> "str", s |-> chars, items |-> <<>>]
ListVal(its) == [t |-> "list", s |-> <<>>, items |-> its]
NoVal == [t |-> "none", s |-> <<>>, items |-> <<>>]

\* results of _parse_records: None, a list, or an exception
NoneResult == [kind |-> "None", items |-> <<>>]
ListResult(its) == [kind |-> "list", items |-> its]
RaisedResult == [kind |-> "raised", items |-> <<>>]
Unset == [kind |-> "unset", items |-> <<>>]

\* ------------------------------------------------------------------------
\* PlaywrightServerManager.stop_server
\* ------------------------------------------------------------------------
\* What the environment does during one stop: how far the escalation gets
\* and what becomes of the pkill cleanup.
StopPaths == {"int_err", "int_exit", "term_err", "term_exit", "kill", "kill_err"}
\* KeyboardInterrupt lands before the first signal is sent, while wait(5)
\* blocks, or while wait(3) blocks.
InterruptPaths == {"intr_pre", "intr_wait1", "intr_wait2"}
\* pkill raises, leaves its targets running, ends them, or is interrupted
\* before it has signalled anything.
PkillModes == {"err", "survive", "die", "intr"}
StopOutcomes == [path  : StopPaths \cup InterruptPaths \cup {"none"},
                 pkill : PkillModes]

\* wait(timeout) can only time out, or be interrupted while it blocks, on a
\* process that is still running. The pkill commands are not reached when the
\* escalation is interrupted. Interrupts are explored in the runs of the two
\* entry points, not in the free calls of the "calls" driver.
ValidStop(h, pr, o) ==
    /\ IF h = 0 THEN o.path = "none"
       ELSE IF pr[h] = "alive" THEN o.path \in StopPaths \cup InterruptPaths
       ELSE o.path \in {"int_err", "int_exit", "intr_pre"}
    /\ o.path \in InterruptPaths => o.pkill = "intr"
    /\ driver = "calls" => o.path \notin InterruptPaths /\ o.pkill # "intr"

\* send_signal(SIGINT) and wait before SIGINT has been sent at all
EscalationEventsKillFirst(h, path) ==
    CASE path = "int_exit"   -> <<Sig("KILL", h), Ev("exited", "wait", h)>>
      [] path = "term_err"   -> <<Sig("KILL", h), Ev("timeout", "first", h)>>
      [] path = "term_exit"  -> <<Sig("KILL", h), Ev("timeout", "first", h),
                                  Sig("TERM", h), Ev("exited", "wait", h)>>
      [] path = "kill"       -> <<Sig("KILL", h), Ev("timeout", "first", h),
                                  Sig("TERM", h), Ev("timeout", "second", h),
                                  Sig("INT", h)>>
      [] path = "kill_err"   -> <<Sig("KILL", h), Ev("timeout", "first", h),
                                  Sig("TERM", h), Ev("timeout", "second", h)>>
      [] path = "intr_wait1" -> <<Sig("KILL", h)>>
      [] path = "intr_wait2" -> <<Sig("KILL", h), Ev("timeout", "first", h),
                                  Sig("TERM", h)>>
      [] OTHER               -> <<>>

\* send_signal(SIGINT); wait(5); terminate(); wait(3); kill()
EscalationEvents(h, path) ==
    CASE path = "int_exit"   -> <<Sig("INT", h), Ev("exited", "wait", h)>>
      [] path = "term_err"   -> <<Sig("INT", h), Ev("timeout", "first", h)>>
      [] path = "term_exit"  -> <<Sig("INT", h), Ev("timeout", "first", h),
                                  Sig("TERM", h), Ev("exited", "wait", h)>>
      [] path = "kill"       -> <<Sig("INT", h), Ev("timeout", "first", h),
                                  Sig("TERM", h), Ev("timeout", "second", h),
                                  Sig("KILL", h)>>
      [] path = "kill_err"   -> <<Sig("INT", h), Ev("timeout", "first", h),
                                  Sig("TERM", h), Ev("timeout", "second", h)>>
      [] path = "intr_wait1" -> <<Sig("INT", h)>>
      [] path = "intr_wait2" -> <<Sig("INT", h), Ev("timeout", "first", h),
                                  Sig("TERM", h)>>
      [] OTHER               -> <<>>

EscalationProc(h, pr, path) ==
    IF path \in {"int_exit", "term_exit"} THEN [pr EXCEPT ![h] = "dead"]
    ELSE IF path = "kill" THEN [pr EXCEPT ![h] = "killed"]
    ELSE pr

\* pkill -f "playwright/mcp"; pkill -f "node.*playwright": every running
\* process whose command line matches, whoever started it.
PkillTargets(pr) ==
    LET Running(q) == pr[q] \in {"alive", "killed"}
    IN  SelectSeq([i \in 1..(MaxCalls + 1) |-> i - 1], Running)

PkillEvents(pr, mode) ==
    IF mode \in {"err", "intr"} THEN <<>>
    ELSE LET t == PkillTargets(pr) IN [i \in 1..Len(t) |-> Sig("PKILL", t[i])]

PkillProc(pr, mode) ==
    IF mode = "die"
    THEN [q \in AllPids |-> IF pr[q] \in {"alive", "killed"} THEN "dead" ELSE pr[q]]
    ELSE pr

\* no `except Exception` clause
CaughtNothing(e) == FALSE

\* `except Exception` catches Exception and lets BaseException through.
Caught(e) == e = "Exception"

\* What is left of a raised e after the except clause of its try block.
Uncaught(e) == IF Caught(e) THEN "none" ELSE e

\* What the escalation raises inside its try block.
EscalationRaises(path) ==
    IF path \in {"int_err", "term_err", "kill_err"} THEN "Exception"
    ELSE IF path \in InterruptPaths THEN "BaseException"
    ELSE "none"

\* What the pkill commands raise inside their try block.
CleanupRaises(mode) ==
    IF mode = "err" THEN "Exception"
    ELSE IF mode = "intr" THEN "BaseException"
    ELSE "none"

\* What stop_server raises to its caller.
StopRaises(o) ==
    IF Uncaught(EscalationRaises(o.path)) # "none"
    THEN Uncaught(EscalationRaises(o.path))
    ELSE Uncaught(CleanupRaises(o.pkill))

\* console.log("... Warning: ...") of the two except clauses
Warning(what, e, h) ==
    IF e # "none" /\ Caught(e) THEN <<Ev("warning", what, h)>> ELSE <<>>

\* The exception in flight once a handler that raised `raised` has run.
Propagate(raised, e) == IF raised # "none" THEN raised ELSE e

\* Everything stop_server does but for the handle.
stop_steps(h, pr, o) ==
    LET pr1 == EscalationProc(h, pr, o.path)
        cleanup == Uncaught(EscalationRaises(o.path)) = "none"
        raised == StopRaises(o)
    IN  [proc   |-> IF cleanup THEN PkillProc(pr1, o.pkill) ELSE pr1,
         raised |-> raised,
         ev     |-> <<Ev("stop", "stop_server", h)>> \o EscalationEvents(h, o.path)
                        \o Warning("stop", EscalationRaises(o.path), h)
                        \o (IF cleanup
                            THEN PkillEvents(pr1, o.pkill)
                                     \o Warning("cleanup", CleanupRaises(o.pkill), 0)
                            ELSE <<>>)
                        \o (IF raised = "none" THEN <<>>
                            ELSE <<Ev("stop_raise", raised, h)>>)]

\* `finally: self.server_process = None` left out
stop_server_keeps_handle(h, pr, o) ==
    LET r == stop_steps(h, pr, o)
    IN  [handle |-> h, proc |-> r.proc, raised |-> r.raised, ev |-> r.ev]

stop_server(h, pr, o) ==
    LET r == stop_steps(h, pr, o)
    IN  [handle |-> 0, proc |-> r.proc, raised |-> r.raised, ev |-> r.ev]

\* ------------------------------------------------------------------------
\* the finally block of agent_poc_agents_sdk.main
\* ------------------------------------------------------------------------
\* fallback: the kill() of the except branch works ("ok") or raises ("err").
PocOutcomes == [path     : StopPaths \cup InterruptPaths \cup {"none"},
                fallback : {"ok", "err"}]

\* if server_proc and server_proc.poll() is None
ValidPocStop(h, pr, o) ==
    /\ IF h # 0 /\ pr[h] = "alive" THEN o.path \in StopPaths \cup InterruptPaths
       ELSE o.path = "none"
    /\ EscalationRaises(o.path) # "Exception" => o.fallback = "ok"

\* except Exception: try: server_proc.kill() except Exception: pass
PocFallback(h, o) ==
    <<Ev("except", "finally", h)>>
        \o (IF o.fallback = "ok" THEN <<Sig("KILL", h)>> ELSE <<>>)

poc_finally(h, pr, o) ==
    LET errs == Caught(EscalationRaises(o.path))
        killed == o.path = "kill" \/ (errs /\ o.fallback = "ok")
    IN  [proc   |-> IF killed THEN [pr EXCEPT ![h] = "killed"]
                    ELSE EscalationProc(h, pr, o.path),
         raised |-> Uncaught(EscalationRaises(o.path)),
         ev     |-> <<Ev("stop", "finally", h)>> \o EscalationEvents(h, o.path)
                        \o (IF errs THEN PocFallback(h, o) ELSE <<>>)]

\* ------------------------------------------------------------------------
\* Init
\* ------------------------------------------------------------------------
Init ==
    /\ driver \in {"cms", "poc", "calls", "probe", "alloc"}
    /\ pc = CASE driver = "cms" -> "cms_import"
              [] driver = "poc" -> "poc_config"
              [] driver = "calls" -> "idle"
              [] driver = "alloc" -> "alloc_idle"
              [] OTHER -> "probe"
    /\ exc = "none"
    \* create_mcp_servers builds PlaywrightServerManager() with no external_url
    /\ external_url \in (IF driver \in {"poc", "calls"}
                          THEN {NoUrl, ExternalUrl} ELSE {NoUrl})
    /\ airtable \in (IF driver \in {"cms", "poc"} THEN BOOLEAN ELSE {FALSE})
    /\ server_process = 0
    /\ server_url = NoUrl
    /\ startRet = NoUrl
    /\ \E extLocal \in BOOLEAN :
          proc = [p \in AllPids |->
                    IF p = ExtPid /\ extLocal /\ external_url = ExternalUrl
                    THEN "alive" ELSE "unborn"]
    /\ listening = FALSE
    /\ answered = FALSE
    /\ toOpen = <<>>
    /\ open = <<>>
    /\ trace = <<>>
    /\ nCalls = 0
    /\ now = 0
    /\ deadline \in (IF driver = "probe" THEN 0..MaxT ELSE {0})
    /\ probeRet = "none"
    /\ lastStatus = 0
    /\ output_text = <<>>
    /\ payload = NoVal
    /\ records = Unset
    /\ sock = 0
    /\ taken \in (IF driver = "alloc" THEN SUBSET Ports ELSE {{}})
    /\ ports = <<>>
    /\ cfg = NoCfg
    /\ sources = <<>>
    /\ cursor = 0
    /\ running = {}
    /\ outputs = <<>>
    /\ all_records = <<>>
    /\ created = <<>>
    /\ events = NoRuns
    /\ control = NoRuns
    /\ returned = [r \in Runs |-> "pending"]
    /\ panels = NoRuns


cfgVars == <<driver, external_url, airtable>>
envVars == <<answered>>      \* history of the environment
probeVars == <<now, deadline, probeRet, lastStatus>>
sessVars == <<toOpen, open>>
parseVars == <<output_text, payload, records>>
allocVars == <<sock, taken, ports>>
mainVars == <<cfg, sources, cursor, running, outputs, all_records, created>>
streamVars == <<events, control, returned, panels>>

\* The pid Popen hands out next.
NextPid == Cardinality({p \in Pids : proc[p] # "unborn"}) + 1

\* Where control goes when start_server returns (e = "none") or raises.
AfterStart(e) ==
    IF driver = "cms" THEN (IF e = "none" THEN "cms_construct" ELSE "finally")
    ELSE IF driver = "main"
    THEN (IF e = "none" THEN "main_construct" ELSE "finally")
    ELSE "idle"

\* ------------------------------------------------------------------------
\* PlaywrightServerManager.start_server
\* ------------------------------------------------------------------------
\* if self.external_url: return it
StartExternalSpawns ==
    /\ pc = "start"
    /\ external_url # NoUrl
    /\ server_url' = external_url
    /\ startRet' = external_url
    /\ server_process' = NextPid
    /\ proc' = [proc EXCEPT ![NextPid] = "alive"]
    /\ Log(<<Ev("spawn", "Popen", NextPid), Ev("start_ret", external_url, 0)>>)
    /\ pc' = AfterStart("none")
    /\ UNCHANGED <<cfgVars, parseVars, allocVars, mainVars, streamVars,
                   envVars, exc, listening, sessVars, nCalls,
                   probeVars>>

StartExternal ==
    /\ pc = "start"
    /\ external_url # NoUrl
    /\ server_url' = external_url
    /\ startRet' = external_url
    /\ Log(<<Ev("start_ret", external_url, 0)>>)
    /\ pc' = AfterStart("none")
    /\ UNCHANGED <<cfgVars, parseVars, allocVars, mainVars, streamVars,
                   envVars, exc, server_process, proc, listening,
                   sessVars,
                   nCalls, probeVars>>

\* find_free_port(); server_url = .../mcp; Popen(cmd) succeeds
StartSpawn ==
    /\ pc = "start"
    /\ external_url = NoUrl
    /\ NextPid \in Pids
    /\ server_url' = ManagedUrl
    /\ server_process' = NextPid
    /\ proc' = [proc EXCEPT ![NextPid] = "alive"]
    /\ listening' = FALSE
    /\ Log(<<Ev("spawn", "Popen", NextPid)>>)
    /\ pc' = "grace"
    /\ UNCHANGED <<cfgVars, parseVars, allocVars, mainVars, streamVars,
                   envVars, exc, startRet, sessVars, nCalls,
                   probeVars>>

\* Popen raises (npx missing, ...): except Exception: stop_server(); raise
StartSpawnFails ==
    /\ pc = "start"
    /\ external_url = NoUrl
    /\ \E o \in StopOutcomes :
          /\ ValidStop(server_process, proc, o)
          /\ LET r == stop_server(server_process, proc, o)
             IN  /\ server_process' = r.handle
                 /\ proc' = r.proc
                 /\ exc' = Propagate(r.raised, "Exception")
                 /\ Log(r.ev \o <<Ev("start_raise", "Popen", 0)>>)
    /\ server_url' = ManagedUrl
    /\ pc' = AfterStart("Exception")
    /\ UNCHANGED <<cfgVars, parseVars, allocVars, mainVars, streamVars,
                   envVars, startRet, listening, sessVars, nCalls,
                   probeVars>>

\* await asyncio.sleep(5) is over: poll(), then raise or return the URL
StartGraceOverIgnoresExit ==
    /\ pc = "grace"
    /\ LET p == server_process
       IN  Log(<<Ev("poll", IF proc[p] = "alive" THEN "running" ELSE "exited", p),
                 Ev("start_ret", server_url, p)>>)
    /\ startRet' = server_url
    /\ pc' = AfterStart("none")
    /\ UNCHANGED <<cfgVars, parseVars, allocVars, mainVars, streamVars,
                   envVars, exc, server_process, server_url, proc,
                   listening,
                   sessVars, nCalls, probeVars>>

\* the process has exited: start_server spawns another one and waits again
StartGraceOverRetries ==
    /\ pc = "grace"
    /\ LET p == server_process
       IN  IF proc[p] # "alive" /\ NextPid \in Pids
           THEN /\ Log(<<Ev("poll", "exited", p), Ev("spawn", "Popen", NextPid)>>)
                /\ server_process' = NextPid
                /\ proc' = [proc EXCEPT ![NextPid] = "alive"]
                /\ UNCHANGED <<pc, exc, startRet>>
           ELSE /\ Log(<<Ev("poll", "running", p), Ev("start_ret", server_url, p)>>)
                /\ startRet' = server_url
                /\ pc' = AfterStart("none")
                /\ UNCHANGED <<exc, server_process, proc>>
    /\ UNCHANGED <<cfgVars, parseVars, allocVars, mainVars, streamVars,
                   envVars, server_url,
                   listening, sessVars, nCalls, probeVars>>

StartGraceOver ==
    /\ pc = "grace"
    /\ LET p == server_process
       IN  IF proc[p] # "alive"
           THEN /\ \E o \in StopOutcomes :
                      /\ ValidStop(p, proc, o)
                      /\ LET r == stop_server(p, proc, o)
                         IN  /\ server_process' = r.handle
                             /\ proc' = r.proc
                             /\ exc' = Propagate(r.raised, "Exception")
                             /\ Log(<<Ev("poll", "exited", p)>> \o r.ev
                                        \o <<Ev("start_raise", "RuntimeError", p)>>)
                /\ pc' = AfterStart("Exception")
                /\ UNCHANGED startRet
           ELSE /\ Log(<<Ev("poll", "running", p), Ev("start_ret", server_url, p)>>)
                /\ startRet' = server_url
                /\ pc' = AfterStart("none")
                /\ UNCHANGED <<exc, server_process, proc>>
    /\ UNCHANGED <<cfgVars, parseVars, allocVars, mainVars, streamVars,
                   envVars, server_url, listening, sessVars, nCalls,
                   probeVars>>

\* The task is cancelled while it awaits the sleep: CancelledError is no
\* Exception, so the except clause of start_server does not run.
StartCancelled ==
    /\ pc = "grace"
    /\ exc' = "BaseException"
    /\ Log(<<Ev("start_raise", "CancelledError", server_process)>>)
    /\ pc' = AfterStart("BaseException")
    /\ UNCHANGED <<cfgVars, parseVars, allocVars, mainVars, streamVars,
                   envVars, server_process, server_url, startRet,
                   proc, listening,
                   sessVars, nCalls, probeVars>>

\* ------------------------------------------------------------------------
\* the environment
\* ------------------------------------------------------------------------
\* A process this program spawned exits on its own.
ProcExit ==
    /\ pc # "done"
    /\ \E p \in Pids :
          /\ proc[p] \in {"alive", "killed"}
          /\ proc' = [proc EXCEPT ![p] = "dead"]
          /\ listening' = IF p = server_process THEN FALSE ELSE listening
    /\ UNCHANGED <<cfgVars, parseVars, allocVars, mainVars, streamVars,
                   envVars, pc, exc, server_process, server_url,
                   startRet,
                   sessVars, trace, nCalls, probeVars>>

\* The endpoint starts to answer requests.
ProcListen ==
    /\ pc # "done"
    /\ ~listening
    /\ \/ driver = "probe"
       \/ /\ server_process # 0
          /\ proc[server_process] = "alive"
          /\ server_url = ManagedUrl
    /\ listening' = TRUE
    /\ answered' = TRUE
    /\ UNCHANGED <<cfgVars, parseVars, allocVars, mainVars, streamVars,
                   pc, exc, server_process, server_url, startRet, proc,
                   sessVars, trace, nCalls, probeVars>>


\* ------------------------------------------------------------------------
\* create_mcp_servers
\* ------------------------------------------------------------------------
\* from agents.mcp import ...; playwright_manager = PlaywrightServerManager()
CmsImport ==
    /\ pc = "cms_import"
    /\ pc' = "start"
    /\ UNCHANGED <<cfgVars, parseVars, allocVars, mainVars, streamVars,
                   envVars, exc, server_process, server_url,
                   startRet, proc,
                   listening, sessVars, trace, nCalls, probeVars>>

\* ImportError -> RuntimeError, raised before the try block
CmsImportFails ==
    /\ pc = "cms_import"
    /\ exc' = "Exception"
    /\ pc' = "done"
    /\ UNCHANGED <<cfgVars, parseVars, allocVars, mainVars, streamVars,
                   envVars, server_process, server_url, startRet, proc,
                   listening, sessVars, trace, nCalls, probeVars>>

\* MCPServerStreamableHttp(...); MCPServerStdio(...) if is_complete()
CmsConstruct ==
    /\ pc = "cms_construct"
    /\ toOpen' = <<"playwright">> \o (IF airtable THEN <<"airtable">> ELSE <<>>)
    /\ pc' = "enter"
    /\ UNCHANGED <<cfgVars, parseVars, allocVars, mainVars, streamVars,
                   envVars, exc, server_process, server_url,
                   startRet, proc,
                   listening, open, trace, nCalls, probeVars>>

\* finally: playwright_manager.stop_server()
CmsFinallyOnlyOnSuccess(o) ==
    /\ pc = "finally"
    /\ driver = "cms"
    /\ ValidStop(server_process, proc, o)
    /\ LET r == stop_server(server_process, proc, o)
       IN  IF exc = "none"
           THEN /\ server_process' = r.handle
                /\ proc' = r.proc
                /\ Log(r.ev)
           ELSE UNCHANGED <<server_process, proc, trace>>
    /\ pc' = "done"
    /\ UNCHANGED <<cfgVars, parseVars, allocVars, mainVars, streamVars,
                   envVars, exc, server_url, startRet, listening,
                   sessVars,
                   nCalls, probeVars>>

CmsFinally(o) ==
    /\ pc = "finally"
    /\ driver = "cms"
    /\ ValidStop(server_process, proc, o)
    /\ LET r == stop_server(server_process, proc, o)
       IN  /\ server_process' = r.handle
           /\ proc' = r.proc
           /\ exc' = Propagate(r.raised, exc)
           /\ Log(r.ev)
    /\ pc' = "done"
    /\ UNCHANGED <<cfgVars, parseVars, allocVars, mainVars, streamVars,
                   envVars, server_url, startRet, listening, sessVars,
                   nCalls, probeVars>>

\* ------------------------------------------------------------------------
\* the nested `async with` scopes of both entry points
\* ------------------------------------------------------------------------
\* __aenter__ of the next server connects. A connection to the spawned
\* server needs its endpoint to answer.
Enter ==
    /\ pc = "enter"
    /\ toOpen # <<>>
    /\ LET s == Head(toOpen)
       IN  /\ (s = "playwright" /\ server_url = ManagedUrl) => listening
           /\ open' = Append(open, s)
           /\ Log(<<Ev("open", s, 0)>>)
    /\ toOpen' = Tail(toOpen)
    /\ pc' = IF Tail(toOpen) = <<>> THEN "body" ELSE "enter"
    /\ UNCHANGED <<cfgVars, parseVars, allocVars, mainVars, streamVars,
                   envVars, exc, server_process, server_url,
                   startRet, proc,
                   listening, nCalls, probeVars>>

\* __aenter__ raises or is cancelled: the scopes already entered unwind.
EnterFails ==
    /\ pc = "enter"
    /\ toOpen # <<>>
    /\ \E e \in {"Exception", "BaseException"} : exc' = e
    /\ Log(<<Ev("open_failed", Head(toOpen), 0)>>)
    /\ pc' = IF open = <<>> THEN "finally" ELSE "exit"
    /\ UNCHANGED <<cfgVars, parseVars, allocVars, mainVars, streamVars,
                   envVars, server_process, server_url, startRet, proc,
                   listening, sessVars, nCalls, probeVars>>

\* The body of the scopes (the agent loop) returns, raises or is cancelled.
BodySkipsExit ==
    /\ pc = "body"
    /\ \E e \in {"none", "Exception", "BaseException"} :
          /\ exc' = e
          /\ Log(<<Ev("body", e, 0)>>)
    /\ pc' = "finally"
    /\ UNCHANGED <<cfgVars, parseVars, allocVars, mainVars, streamVars,
                   envVars, server_process, server_url, startRet, proc,
                   listening, sessVars, nCalls, probeVars>>

Body ==
    /\ pc = "body"
    /\ \E e \in {"none", "Exception", "BaseException"} :
          /\ exc' = e
          /\ Log(<<Ev("body", e, 0)>>)
    /\ pc' = "exit"
    /\ UNCHANGED <<cfgVars, parseVars, allocVars, mainVars, streamVars,
                   envVars, server_process, server_url, startRet, proc,
                   listening, sessVars, nCalls, probeVars>>

\* the scope entered first is left first
ExitOutermostFirst ==
    /\ pc = "exit"
    /\ open # <<>>
    /\ LET s == Head(open)
       IN  \E ok \in BOOLEAN :
              /\ exc' = IF ok THEN exc ELSE "Exception"
              /\ Log(<<Ev("close", s, 0)>>
                       \o (IF ok THEN <<>> ELSE <<Ev("close_failed", s, 0)>>))
    /\ open' = Tail(open)
    /\ pc' = IF Len(open) = 1 THEN "finally" ELSE "exit"
    /\ UNCHANGED <<cfgVars, parseVars, allocVars, mainVars, streamVars,
                   envVars, server_process,
                   server_url, startRet, proc, listening, toOpen, nCalls,
                   probeVars>>

\* __aexit__ of the innermost scope: the session is closed, or the close
\* raises and is abandoned.
Exit ==
    /\ pc = "exit"
    /\ open # <<>>
    /\ LET s == open[Len(open)]
       IN  \E ok \in BOOLEAN :
              /\ exc' = IF ok THEN exc ELSE "Exception"
              /\ Log(<<Ev("close", s, 0)>>
                       \o (IF ok THEN <<>> ELSE <<Ev("close_failed", s, 0)>>))
    /\ open' = SubSeq(open, 1, Len(open) - 1)
    /\ pc' = IF Len(open) = 1 THEN "finally" ELSE "exit"
    /\ UNCHANGED <<cfgVars, parseVars, allocVars, mainVars, streamVars,
                   envVars, server_process, server_url, startRet, proc,
                   listening, toOpen, nCalls, probeVars>>

\* ------------------------------------------------------------------------
\* agent_poc_agents_sdk.main
\* ------------------------------------------------------------------------
PocMissingKey ==
    /\ pc = "poc_config"
    /\ exc' = "Exception"
    /\ pc' = "done"
    /\ UNCHANGED <<cfgVars, parseVars, allocVars, mainVars, streamVars,
                   envVars, server_process, server_url, startRet, proc,
                   listening, sessVars, trace, nCalls, probeVars>>

\* the Agents SDK import fails: a panel is printed and main returns
PocSdkMissing ==
    /\ pc = "poc_config"
    /\ pc' = "done"
    /\ UNCHANGED <<cfgVars, parseVars, allocVars, mainVars, streamVars,
                   envVars, exc, server_process, server_url,
                   startRet, proc,
                   listening, sessVars, trace, nCalls, probeVars>>

PocConfigOk ==
    /\ pc = "poc_config"
    /\ pc' = "poc_start"
    /\ UNCHANGED <<cfgVars, parseVars, allocVars, mainVars, streamVars,
                   envVars, exc, server_process, server_url,
                   startRet, proc,
                   listening, sessVars, trace, nCalls, probeVars>>

\* if MCP_EXTERNAL_SSE_URL: url = MCP_EXTERNAL_SSE_URL
PocStartExternal ==
    /\ pc = "poc_start"
    /\ external_url # NoUrl
    /\ server_url' = external_url
    /\ startRet' = external_url
    /\ Log(<<Ev("start_ret", external_url, 0)>>)
    /\ pc' = "poc_construct"
    /\ UNCHANGED <<cfgVars, parseVars, allocVars, mainVars, streamVars,
                   envVars, exc, server_process, proc, listening,
                   sessVars,
                   nCalls, probeVars>>

\* server_proc = Popen(cmd); deadline = time.time() + MCP_READY_WAIT_SECONDS
PocSpawn ==
    /\ pc = "poc_start"
    /\ external_url = NoUrl
    /\ server_url' = ManagedUrl
    /\ server_process' = NextPid
    /\ proc' = [proc EXCEPT ![NextPid] = "alive"]
    /\ deadline' = now + MCP_READY_WAIT_TICKS
    /\ Log(<<Ev("spawn", "Popen", NextPid)>>)
    /\ pc' = "probe"
    /\ UNCHANGED <<cfgVars, parseVars, allocVars, mainVars, streamVars,
                   envVars, exc, startRet, listening, sessVars,
                   nCalls, now,
                   probeRet, lastStatus>>

PocSpawnFails ==
    /\ pc = "poc_start"
    /\ external_url = NoUrl
    /\ server_url' = ManagedUrl
    /\ exc' = "Exception"
    /\ pc' = "finally"
    /\ UNCHANGED <<cfgVars, parseVars, allocVars, mainVars, streamVars,
                   envVars, server_process, startRet, proc,
                   listening, sessVars,
                   trace, nCalls, probeVars>>

\* KeyboardInterrupt while the probe blocks in urlopen or time.sleep
PocInterrupted ==
    /\ driver = "poc"
    /\ pc = "probe"
    /\ exc' = "BaseException"
    /\ pc' = "finally"
    /\ UNCHANGED <<cfgVars, parseVars, allocVars, mainVars, streamVars,
                   envVars, server_process, server_url, startRet, proc,
                   listening, sessVars, trace, nCalls, probeVars>>

\* MCPServerSse(...); MCPServerStdio(...) if AIRTABLE_API_KEY
PocConstruct ==
    /\ pc = "poc_construct"
    /\ toOpen' = (IF airtable THEN <<"airtable">> ELSE <<>>) \o <<"playwright">>
    /\ pc' = "enter"
    /\ UNCHANGED <<cfgVars, parseVars, allocVars, mainVars, streamVars,
                   envVars, exc, server_process, server_url,
                   startRet, proc,
                   listening, open, trace, nCalls, probeVars>>

\* AIRTABLE_API_KEY is set and the SDK has no MCPServerStdio
PocStdioMissing ==
    /\ pc = "poc_construct"
    /\ airtable
    /\ exc' = "Exception"
    /\ pc' = "finally"
    /\ UNCHANGED <<cfgVars, parseVars, allocVars, mainVars, streamVars,
                   envVars, server_process, server_url, startRet, proc,
                   listening, sessVars, trace, nCalls, probeVars>>

PocFinally(o) ==
    /\ pc = "finally"
    /\ driver = "poc"
    /\ ValidPocStop(server_process, proc, o)
    /\ LET r == poc_finally(server_process, proc, o)
       IN  /\ proc' = r.proc
           /\ exc' = Propagate(r.raised, exc)
           /\ Log(r.ev)
    /\ pc' = "done"
    /\ UNCHANGED <<cfgVars, parseVars, allocVars, mainVars, streamVars,
                   envVars, server_process, server_url, startRet,
                   listening, sessVars, nCalls, probeVars>>


\* ------------------------------------------------------------------------
\* wait_http_ok / _wait_http_ok
\* ------------------------------------------------------------------------
\* while time.time() < deadline
LoopGuardInclusive(t, dl) == t <= dl

LoopGuard(t, dl) == t < dl

\* Where control goes when the probe returns r.
AfterProbe(r) ==
    IF driver = "probe" THEN "done"
    ELSE IF r = "true" THEN "poc_construct" ELSE "finally"

\* The statuses a server may answer with. urlopen hands 2xx responses to its
\* caller and raises HTTPError for 4xx and 5xx ones.
OkStatuses == {200, 202, 204}
ErrorStatuses == {404, 500}

\* urlopen returns a response after d ticks:
\* if resp.status in (200, 204): return True; return True
ProbeRespond ==
    /\ pc = "probe"
    /\ LoopGuard(now, deadline)
    /\ listening
    /\ \E d \in 0..UrlopenTimeoutTicks : now' = now + d
    /\ \E s \in OkStatuses : lastStatus' = s
    /\ probeRet' = "true"
    /\ startRet' = IF driver = "poc" THEN server_url ELSE startRet
    /\ Log(<<Ev("probe", "true", server_process)>>
             \o (IF driver = "poc"
                 THEN <<Ev("start_ret", server_url, server_process)>> ELSE <<>>))
    /\ pc' = AfterProbe("true")
    /\ UNCHANGED <<cfgVars, parseVars, allocVars, mainVars, streamVars,
                   envVars, exc, server_process, server_url, proc,
                   listening,
                   sessVars, nCalls, deadline>>

\* The server answers with an error status after d ticks: urlopen raises
\* HTTPError, an Exception: except Exception: time.sleep(0.2)
ProbeHttpError ==
    /\ pc = "probe"
    /\ LoopGuard(now, deadline)
    /\ listening
    /\ \E d \in 0..UrlopenTimeoutTicks : now' = now + d + PollTicks
    /\ \E s \in ErrorStatuses : lastStatus' = s
    /\ UNCHANGED <<cfgVars, parseVars, allocVars, mainVars, streamVars,
                   envVars, pc, exc, server_process, server_url,
                   startRet, proc,
                   listening, sessVars, trace, nCalls, deadline, probeRet>>

\* The attempt fails to propagate: no `except Exception` around urlopen
ProbeRetryRaises ==
    /\ pc = "probe"
    /\ LoopGuard(now, deadline)
    /\ \E d \in 0..MaxAttemptTicks : now' = now + d
    /\ exc' = "Exception"
    /\ pc' = AfterProbe("raise")
    /\ UNCHANGED <<cfgVars, parseVars, allocVars, mainVars, streamVars,
                   envVars, server_process, server_url,
                   startRet, proc,
                   listening, sessVars, trace, nCalls, deadline, probeRet,
                   lastStatus>>

\* urlopen raises after d ticks without a response (refused, timed out,
\* reset, ...): except Exception: time.sleep(0.2)
ProbeRetry ==
    /\ pc = "probe"
    /\ LoopGuard(now, deadline)
    /\ \E d \in 0..MaxAttemptTicks : now' = now + d + PollTicks
    /\ UNCHANGED <<cfgVars, parseVars, allocVars, mainVars, streamVars,
                   envVars, pc, exc, server_process, server_url,
                   startRet, proc,
                   listening, sessVars, trace, nCalls, deadline, probeRet,
                   lastStatus>>

\* the loop ends: return False; main raises RuntimeError on it
ProbeTimeout ==
    /\ pc = "probe"
    /\ ~LoopGuard(now, deadline)
    /\ probeRet' = "false"
    /\ exc' = IF driver = "poc" THEN "Exception" ELSE exc
    /\ Log(<<Ev("probe", "false", server_process)>>)
    /\ pc' = AfterProbe("false")
    /\ UNCHANGED <<cfgVars, parseVars, allocVars, mainVars, streamVars,
                   envVars, server_process, server_url, startRet, proc,
                   listening, sessVars, nCalls, now, deadline, lastStatus>>

\* ------------------------------------------------------------------------
\* a caller of the two methods of one manager
\* ------------------------------------------------------------------------
CallStart ==
    /\ driver = "calls"
    /\ pc = "idle"
    /\ nCalls < MaxCalls
    /\ nCalls' = nCalls + 1
    /\ exc' = "none"
    /\ pc' = "start"
    /\ UNCHANGED <<cfgVars, parseVars, allocVars, mainVars, streamVars,
                   envVars, server_process, server_url, startRet, proc,
                   listening, sessVars, trace, probeVars>>

CallStop(o) ==
    /\ driver = "calls"
    /\ pc = "idle"
    /\ nCalls < MaxCalls
    /\ ValidStop(server_process, proc, o)
    /\ LET r == stop_server(server_process, proc, o)
       IN  /\ server_process' = r.handle
           /\ proc' = r.proc
           /\ exc' = r.raised
           /\ Log(r.ev)
    /\ nCalls' = nCalls + 1
    /\ UNCHANGED <<cfgVars, parseVars, allocVars, mainVars, streamVars,
                   envVars, pc, server_url, startRet, listening,
                   sessVars,
                   probeVars>>

\* ------------------------------------------------------------------------
\* mcp_utils.find_free_port, called MaxCalls times by the "alloc" driver
\* ------------------------------------------------------------------------
\* socket.socket(); s.bind(("127.0.0.1", 0)): the host picks any port that no
\* socket is bound to.
AllocBind ==
    /\ driver = "alloc"
    /\ pc = "alloc_idle"
    /\ nCalls < MaxCalls
    /\ nCalls' = nCalls + 1
    /\ \E p \in Ports \ (taken \cup {sock}) : sock' = p
    /\ exc' = "none"
    /\ pc' = "alloc_bound"
    /\ UNCHANGED <<cfgVars, parseVars, mainVars, streamVars,
                   envVars, server_process, server_url,
                   startRet, proc, listening, sessVars, trace, probeVars,
                   taken, ports>>

\* no port is left: bind raises OSError and the with block closes the socket
AllocBindFails ==
    /\ driver = "alloc"
    /\ pc = "alloc_idle"
    /\ nCalls < MaxCalls
    /\ nCalls' = nCalls + 1
    /\ Ports \ (taken \cup {sock}) = {}
    /\ exc' = "Exception"
    /\ UNCHANGED <<cfgVars, parseVars, allocVars, mainVars, streamVars,
                   envVars, pc, server_process,
                   server_url, startRet, proc, listening, sessVars, trace,
                   probeVars>>

\* return s.getsockname()[1] without leaving a with block
AllocReturnKeepsSocket ==
    /\ pc = "alloc_bound"
    /\ ports' = Append(ports, sock)
    /\ pc' = "alloc_idle"
    /\ UNCHANGED <<cfgVars, parseVars, mainVars, streamVars,
                   envVars, exc, server_process, server_url,
                   startRet, proc, listening, sessVars, trace, nCalls,
                   probeVars, sock, taken>>

\* return s.getsockname()[1]: leaving the with block closes the socket
AllocReturn ==
    /\ pc = "alloc_bound"
    /\ ports' = Append(ports, sock)
    /\ sock' = 0
    /\ pc' = "alloc_idle"
    /\ UNCHANGED <<cfgVars, parseVars, mainVars, streamVars,
                   envVars, exc, server_process, server_url,
                   startRet, proc, listening, sessVars, trace, nCalls,
                   probeVars, taken>>

\* ------------------------------------------------------------------------
Next ==
    \/ CmsImport \/ CmsImportFails \/ CmsConstruct
    \/ \E o \in StopOutcomes : CmsFinally(o)
    \/ StartExternal \/ StartSpawn \/ StartSpawnFails
    \/ StartGraceOver \/ StartCancelled
    \/ ProcExit \/ ProcListen
    \/ Enter \/ EnterFails \/ Body \/ Exit
    \/ PocMissingKey \/ PocSdkMissing \/ PocConfigOk
    \/ PocStartExternal \/ PocSpawn \/ PocSpawnFails \/ PocInterrupted
    \/ PocConstruct \/ PocStdioMissing
    \/ \E o \in PocOutcomes : PocFinally(o)
    \/ ProbeRespond \/ ProbeHttpError \/ ProbeRetry \/ ProbeTimeout
    \/ CallStart
    \/ \E o \in StopOutcomes : CallStop(o)
    \/ AllocBind \/ AllocBindFails \/ AllocReturn

Spec == Init /\ [][Next]_vars


\* ------------------------------------------------------------------------
\* main._parse_records
\* ------------------------------------------------------------------------
MaxLen == 4        \* longest arbitrary final text
MaxNarr == 1       \* longest narration on either side of a written array
MaxItems == 2      \* most elements of a written array

\* A text is a sequence of characters. "1" stands for the digits, "x" for
\* the letters, " " for the whitespace.
Chars == {"[", "]", ",", "1", "x", " ", "\""}
NarrChars == {"x", " "}
SeqsUpTo(S, n) == UNION {[1..k -> S] : k \in 0..n}

\* str.strip()
RECURSIVE LStrip(_)
LStrip(s) == IF s # <<>> /\ Head(s) = " " THEN LStrip(Tail(s)) ELSE s
RECURSIVE RStrip(_)
RStrip(s) ==
    IF s # <<>> /\ s[Len(s)] = " " THEN RStrip(SubSeq(s, 1, Len(s) - 1)) ELSE s
Strip(s) == RStrip(LStrip(s))

\* str.find(c): the 0-based index of the first c, -1 if there is none
Find(s, c) ==
    IF \E i \in 1..Len(s) : s[i] = c
    THEN (CHOOSE i \in 1..Len(s) : s[i] = c /\ \A j \in 1..(i - 1) : s[j] # c) - 1
    ELSE -1

\* str.rfind(c) taken for str.find(c)
RFindFirst(s, c) == Find(s, c)

\* str.rfind(c): the 0-based index of the last c, -1 if there is none
RFind(s, c) ==
    IF \E i \in 1..Len(s) : s[i] = c
    THEN (CHOOSE i \in 1..Len(s) : s[i] = c /\ \A j \in (i + 1)..Len(s) : s[j] # c) - 1
    ELSE -1

StartsWith(s, c) == s # <<>> /\ s[1] = c
EndsWith(s, c) == s # <<>> /\ s[Len(s)] = c

\* json.loads. A decoding step yields [ok, val, next]: next is the 1-based
\* position after the value.
Fail == [ok |-> FALSE, val |-> NoVal, next |-> 0]
Ok(v, n) == [ok |-> TRUE, val |-> v, next |-> n]

\* the first position from i on that holds no whitespace
RECURSIVE SkipWs(_, _)
SkipWs(s, i) == IF i <= Len(s) /\ s[i] = " " THEN SkipWs(s, i + 1) ELSE i

\* the first position from i on that holds no digit
RECURSIVE SkipDigits(_, _)
SkipDigits(s, i) == IF i <= Len(s) /\ s[i] = "1" THEN SkipDigits(s, i + 1) ELSE i

\* the position of the closing quote of a string whose content starts at i
RECURSIVE ClosingQuote(_, _)
ClosingQuote(s, i) ==
    IF i > Len(s) THEN 0
    ELSE IF s[i] = "\"" THEN i ELSE ClosingQuote(s, i + 1)

RECURSIVE ParseValue(_, _)
RECURSIVE ParseItems(_, _, _)
\* the value that starts at position i
ParseValue(s, i) ==
    IF i > Len(s) THEN Fail
    ELSE CASE s[i] = "1" ->
                  LET n == SkipDigits(s, i) IN Ok(NumVal(SubSeq(s, i, n - 1)), n)
           [] s[i] = "\"" ->
                  LET q == ClosingQuote(s, i + 1)
                  IN  IF q = 0 THEN Fail ELSE Ok(StrVal(SubSeq(s, i + 1, q - 1)), q + 1)
           [] s[i] = "[" ->
                  LET j == SkipWs(s, i + 1)
                  IN  IF j <= Len(s) /\ s[j] = "]" THEN Ok(ListVal(<<>>), j + 1)
                      ELSE ParseItems(s, j, <<>>)
           [] OTHER -> Fail

\* the elements of an array from position i on, acc being those before
ParseItems(s, i, acc) ==
    LET r == ParseValue(s, i)
        j == SkipWs(s, r.next)
    IN  IF ~r.ok \/ j > Len(s) THEN Fail
        ELSE IF s[j] = "," THEN ParseItems(s, SkipWs(s, j + 1), Append(acc, r.val))
        ELSE IF s[j] = "]" THEN Ok(ListVal(Append(acc, r.val)), j + 1)
        ELSE Fail

\* json.loads(s): one value, whitespace around it, nothing else
Decode(s) ==
    LET r == ParseValue(s, SkipWs(s, 1))
    IN  IF r.ok /\ SkipWs(s, r.next) = Len(s) + 1 THEN r ELSE Fail

\* json.JSONDecodeError propagates: no except clause
DecodeErrorRaises == RaisedResult

\* except json.JSONDecodeError: return None
DecodeErrorResult == NoneResult

_parse_records(text) ==
    IF text = <<>> THEN NoneResult
    ELSE LET stripped == Strip(text)
             start == Find(stripped, "[")
             end == RFind(stripped, "]")
             whole == StartsWith(stripped, "[") /\ EndsWith(stripped, "]")
             candidate == IF whole THEN stripped
                          ELSE SubSeq(stripped, start + 1, end + 1)
         IN  IF ~whole /\ (start = -1 \/ end = -1 \/ end <= start) THEN NoneResult
             ELSE LET parsed == Decode(candidate)
                  IN  IF ~parsed.ok THEN DecodeErrorResult
                      ELSE IF parsed.val.t = "list" THEN ListResult(parsed.val.items)
                      ELSE NoneResult

\* json.dumps: the text of a value
RECURSIVE Encode(_)
RECURSIVE EncodeItems(_)
Encode(v) ==
    CASE v.t = "num" -> v.s
      [] v.t = "str" -> <<"\"">> \o v.s \o <<"\"">>
      [] OTHER -> <<"[">> \o EncodeItems(v.items) \o <<"]">>
EncodeItems(its) ==
    IF its = <<>> THEN <<>>
    ELSE IF Len(its) = 1 THEN Encode(its[1])
    ELSE Encode(its[1]) \o <<",", " ">> \o EncodeItems(Tail(its))

\* the arrays a final text is written around
Leaves == {NumVal(<<"1">>), StrVal(<<>>), StrVal(<<"]">>), StrVal(<<"[">>),
           ListVal(<<>>)}
Elements == Leaves \cup {ListVal(<<v>>) : v \in Leaves}
Arrays == {ListVal(its) : its \in SeqsUpTo(Elements, MaxItems)}

\* One call of _parse_records: on any text up to MaxLen, or on a text made
\* of one array between two narrations free of brackets.
InitParse ==
    /\ driver = "parse"
    /\ pc = "parse"
    /\ exc = "none"
    /\ external_url = NoUrl
    /\ airtable = FALSE
    /\ server_process = 0
    /\ server_url = NoUrl
    /\ startRet = NoUrl
    /\ proc = [p \in AllPids |-> "unborn"]
    /\ listening = FALSE
    /\ answered = FALSE
    /\ toOpen = <<>>
    /\ open = <<>>
    /\ trace = <<>>
    /\ nCalls = 0
    /\ now = 0
    /\ deadline = 0
    /\ probeRet = "none"
    /\ lastStatus = 0
    /\ records = Unset
    /\ sock = 0
    /\ taken = {}
    /\ ports = <<>>
    /\ cfg = NoCfg
    /\ sources = <<>>
    /\ cursor = 0
    /\ running = {}
    /\ outputs = <<>>
    /\ all_records = <<>>
    /\ created = <<>>
    /\ events = NoRuns
    /\ control = NoRuns
    /\ returned = [r \in Runs |-> "pending"]
    /\ panels = NoRuns
    /\ \/ /\ output_text \in SeqsUpTo(Chars, MaxLen)
          /\ payload = NoVal
       \/ \E before, after \in SeqsUpTo(NarrChars, MaxNarr), a \in Arrays :
             /\ output_text = before \o Encode(a) \o after
             /\ payload = a

\* records = _parse_records(final_output)
ParseRecords ==
    /\ pc = "parse"
    /\ LET r == _parse_records(output_text)
       IN  /\ records' = r
           /\ exc' = IF r.kind = "raised" THEN "Exception" ELSE exc
    /\ pc' = "done"
    /\ UNCHANGED <<cfgVars, allocVars, mainVars, streamVars,
                   envVars, server_process, server_url,
                   startRet, proc, listening, sessVars, trace, nCalls,
                   probeVars, output_text, payload>>

NextParse == ParseRecords

SpecParse == InitParse /\ [][NextParse]_vars

\* ------------------------------------------------------------------------
\* main.main: one run over the source records of the store
\* ------------------------------------------------------------------------
MaxSources == 2     \* most source records the store returns

mgrVars == <<server_process, server_url, startRet, proc, listening>>
otherVars == <<cfgVars, parseVars, allocVars, streamVars, envVars, nCalls,
               probeVars>>

\* A source record has a URL or lacks one.
SourceLists == SeqsUpTo({"url", "nourl"}, MaxSources)

\* The record the agent scraped from source n.
Rec(n) == NumVal([k \in 1..n |-> "1"])

\* result.final_output of an agent run: the text, and the records of the
\* array the agent wrote into it (items, <<>> when it wrote no array).
Written(kind, text, items) == [kind |-> kind, text |-> text, items |-> items]
FinalOutputs(n) ==
    { Written("none", <<>>, <<>>),
      Written("prose", <<"x", " ", "x">>, <<>>),
      Written("broken", <<"x", "[", "1", ",", "]">>, <<>>),
      Written("empty", <<"[", "]">>, <<>>),
      Written("array", <<"x", " ">> \o Encode(ListVal(<<Rec(n)>>)), <<Rec(n)>>),
      Written("array", Encode(ListVal(<<Rec(n), StrVal(<<"x">>)>>)) \o <<"x">>,
              <<Rec(n), StrVal(<<"x">>)>>) }

\* a text without a list in it is an error
ParsedRecordsStrict(text) ==
    IF text # <<>> /\ _parse_records(text).kind = "list"
    THEN _parse_records(text) ELSE RaisedResult

\* records = _parse_records(final_output) if final_output else None
ParsedRecords(text) == IF text = <<>> THEN NoneResult ELSE _parse_records(text)

\* if records:
Truthy(r) == r.kind = "list" /\ r.items # <<>>

\* all_records = records
ExtendOverwrites(acc, r) == IF Truthy(r) THEN r.items ELSE acc

\* if records: all_records.extend(records)
Extend(acc, r) == IF Truthy(r) THEN acc \o r.items ELSE acc

InitMain ==
    /\ driver = "main"
    /\ pc = "main_validate"
    /\ exc = "none"
    /\ external_url = NoUrl
    /\ airtable = FALSE
    /\ server_process = 0
    /\ server_url = NoUrl
    /\ startRet = NoUrl
    /\ proc = [p \in AllPids |-> "unborn"]
    /\ listening = FALSE
    /\ answered = FALSE
    /\ toOpen = <<>>
    /\ open = <<>>
    /\ trace = <<>>
    /\ nCalls = 0
    /\ now = 0
    /\ deadline = 0
    /\ probeRet = "none"
    /\ lastStatus = 0
    /\ output_text = <<>>
    /\ payload = NoVal
    /\ records = Unset
    /\ sock = 0
    /\ taken = {}
    /\ ports = <<>>
    /\ cfg \in Cfgs
    /\ sources = <<>>
    /\ cursor = 0
    /\ running = {}
    /\ outputs = <<>>
    /\ all_records = <<>>
    /\ created = <<>>
    /\ events = NoRuns
    /\ control = NoRuns
    /\ returned = [r \in Runs |-> "pending"]
    /\ panels = NoRuns

\* validate_and_setup_environment() returns, or raises RuntimeError when
\* the SDK or the OpenAI key is missing
MainValidate ==
    /\ pc = "main_validate"
    /\ exc' = IF cfg.valid THEN exc ELSE "Exception"
    /\ pc' = IF cfg.valid THEN "main_config" ELSE "main_except"
    /\ Log(<<Ev("validate", IF cfg.valid THEN "ok" ELSE "raise", 0)>>)
    /\ UNCHANGED <<otherVars, mgrVars, sessVars, mainVars>>

\* the two checks are skipped
MainConfigUnchecked ==
    /\ pc = "main_config"
    /\ pc' = "main_fetch"
    /\ UNCHANGED <<otherVars, mgrVars, sessVars, mainVars, exc, trace>>

\* if not airtable_enabled: return; if not sources_table_id: return
MainConfig ==
    /\ pc = "main_config"
    /\ IF cfg.configured /\ cfg.table
       THEN /\ pc' = "main_fetch"
            /\ UNCHANGED trace
       ELSE /\ pc' = "done"
            /\ Log(<<Ev("main_return",
                        IF cfg.configured THEN "no_table" ELSE "not_configured",
                        0)>>)
    /\ UNCHANGED <<otherVars, mgrVars, sessVars, mainVars, exc>>

\* sources = client.get_all_records(sources_table_id); if not sources:
\* return; all_records = []; entering create_playwright_server()
MainFetch ==
    /\ pc = "main_fetch"
    /\ \/ \E l \in SourceLists :
             /\ sources' = l
             /\ Log(<<Ev("fetch", IF l = <<>> THEN "empty" ELSE "some", 0)>>)
             /\ pc' = IF l = <<>> THEN "done" ELSE "start"
             /\ UNCHANGED exc
       \/ /\ exc' = "Exception"
          /\ Log(<<Ev("fetch", "raise", 0)>>)
          /\ pc' = "main_except"
          /\ UNCHANGED sources
    /\ UNCHANGED <<otherVars, mgrVars, sessVars,
                   cfg, cursor, running, outputs, all_records, created>>

\* create_playwright_server: the session of the started server is built
MainConstruct ==
    /\ pc = "main_construct"
    /\ toOpen' = <<"playwright">>
    /\ pc' = "enter"
    /\ UNCHANGED <<otherVars, mgrVars, mainVars, exc, open, trace>>

\* the next source is started while a run or a delay is still pending
MainNextSourceNoAwait ==
    /\ pc \in {"body", "agent", "delay"}
    /\ cursor < Len(sources)
    /\ cursor' = cursor + 1
    /\ IF sources[cursor + 1] = "nourl"
       THEN /\ Log(<<Ev("skip", "nourl", cursor + 1)>>)
            /\ UNCHANGED <<pc, running>>
       ELSE /\ Log(<<Ev("agent_start", "run", cursor + 1)>>)
            /\ running' = running \cup {cursor + 1}
            /\ pc' = "agent"
    /\ UNCHANGED <<otherVars, mgrVars, sessVars, exc,
                   cfg, sources, outputs, all_records, created>>

\* for source_record in sources: a source without URL is skipped by
\* `continue`; for the others run_agent_with_task is awaited
MainNextSource ==
    /\ pc = "body"
    /\ driver = "main"
    /\ cursor < Len(sources)
    /\ cursor' = cursor + 1
    /\ IF sources[cursor + 1] = "nourl"
       THEN /\ Log(<<Ev("skip", "nourl", cursor + 1)>>)
            /\ UNCHANGED <<pc, running>>
       ELSE /\ Log(<<Ev("agent_start", "run", cursor + 1)>>)
            /\ running' = running \cup {cursor + 1}
            /\ pc' = "agent"
    /\ UNCHANGED <<otherVars, mgrVars, sessVars, exc,
                   cfg, sources, outputs, all_records, created>>

\* the awaited run returns: final_output is read, parsed and collected
MainAgentReturns ==
    /\ pc = "agent"
    /\ \E w \in FinalOutputs(cursor) :
          LET r == ParsedRecords(w.text)
          IN  /\ outputs' = Append(outputs, w)
              /\ running' = running \ {cursor}
              /\ IF r.kind = "raised"
                 THEN /\ exc' = "Exception"
                      /\ Log(<<Ev("agent_ret", "parse_raise", cursor)>>)
                      /\ pc' = "exit"
                      /\ UNCHANGED all_records
                 ELSE /\ all_records' = Extend(all_records, r)
                      /\ Log(<<Ev("agent_ret",
                                  IF Truthy(r) THEN "records" ELSE "no_records",
                                  cursor)>>)
                      /\ pc' = "delay"
                      /\ UNCHANGED exc
    /\ UNCHANGED <<otherVars, mgrVars, sessVars, cfg, sources, cursor, created>>

\* the awaited run raises or is cancelled: the `async with` block is left
MainAgentRaises ==
    /\ pc = "agent"
    /\ \E e \in {"Exception", "BaseException"} :
          /\ exc' = e
          /\ Log(<<Ev("agent_raise", e, cursor)>>)
    /\ running' = running \ {cursor}
    /\ pc' = "exit"
    /\ UNCHANGED <<otherVars, mgrVars, sessVars,
                   cfg, sources, cursor, outputs, all_records, created>>

\* await asyncio.sleep(DEFAULT_DELAY_BETWEEN_SOURCES) is over, or the
\* task is cancelled while it sleeps
MainDelay ==
    /\ pc = "delay"
    /\ \E over \in BOOLEAN :
          /\ exc' = IF over THEN exc ELSE "BaseException"
          /\ Log(<<Ev("delay", IF over THEN "over" ELSE "CancelledError", cursor)>>)
          /\ pc' = IF over THEN "body" ELSE "exit"
    /\ UNCHANGED <<otherVars, mgrVars, sessVars, mainVars>>

\* the records are written at the end of the loop, inside the block
MainLoopEndPersists ==
    /\ pc = "body"
    /\ driver = "main"
    /\ cursor = Len(sources)
    /\ created' = IF all_records # <<>> THEN Append(created, all_records)
                  ELSE created
    /\ Log(IF all_records # <<>> THEN <<Ev("create_records", "ok", 0)>> ELSE <<>>)
    /\ pc' = "exit"
    /\ UNCHANGED <<otherVars, mgrVars, sessVars, exc,
                   cfg, sources, cursor, running, outputs, all_records>>

\* the for loop is exhausted: control leaves the `async with` block
MainLoopEnd ==
    /\ pc = "body"
    /\ driver = "main"
    /\ cursor = Len(sources)
    /\ pc' = "exit"
    /\ UNCHANGED <<otherVars, mgrVars, sessVars, mainVars, exc, trace>>

\* create_playwright_server: finally: stop_server()
MainFinally(o) ==
    /\ pc = "finally"
    /\ driver = "main"
    /\ ValidStop(server_process, proc, o)
    /\ LET r == stop_server(server_process, proc, o)
       IN  /\ server_process' = r.handle
           /\ proc' = r.proc
           /\ exc' = Propagate(r.raised, exc)
           /\ Log(r.ev)
           /\ pc' = IF Propagate(r.raised, exc) = "none"
                    THEN "main_persist" ELSE "main_except"
    /\ UNCHANGED <<otherVars, sessVars, mainVars,
                   server_url, startRet, listening>>

\* if all_records: client.create_records(all_records), which returns or
\* raises; else: nothing to save
MainPersist ==
    /\ pc = "main_persist"
    /\ IF all_records # <<>>
       THEN \E ok \in BOOLEAN :
               /\ created' = IF ok THEN Append(created, all_records) ELSE created
               /\ exc' = IF ok THEN exc ELSE "Exception"
               /\ Log(<<Ev("create_records", IF ok THEN "ok" ELSE "raise", 0)>>)
               /\ pc' = IF ok THEN "done" ELSE "main_except"
       ELSE /\ pc' = "done"
            /\ UNCHANGED <<created, exc, trace>>
    /\ UNCHANGED <<otherVars, mgrVars, sessVars,
                   cfg, sources, cursor, running, outputs, all_records>>

\* the exception is printed and dropped
MainExceptAbsorbs ==
    /\ pc = "main_except"
    /\ exc' = "none"
    /\ Log(<<Ev("reraise", exc, 0)>>)
    /\ pc' = "done"
    /\ UNCHANGED <<otherVars, mgrVars, sessVars, mainVars>>

\* except Exception as e: print; raise. What is no Exception passes the
\* clause untouched.
MainExcept ==
    /\ pc = "main_except"
    /\ Log(IF exc = "Exception" THEN <<Ev("reraise", exc, 0)>> ELSE <<>>)
    /\ pc' = "done"
    /\ UNCHANGED <<otherVars, mgrVars, sessVars, mainVars, exc>>

NextMain ==
    \/ MainValidate \/ MainConfig \/ MainFetch
    \/ StartSpawn \/ StartSpawnFails \/ StartGraceOver \/ StartCancelled
    \/ ProcExit \/ ProcListen
    \/ MainConstruct \/ Enter \/ EnterFails
    \/ MainNextSource \/ MainAgentReturns \/ MainAgentRaises \/ MainDelay
    \/ MainLoopEnd
    \/ Exit
    \/ \E o \in StopOutcomes : MainFinally(o)
    \/ MainPersist \/ MainExcept

SpecMain == InitMain /\ [][NextMain]_vars

\* ------------------------------------------------------------------------
\* AgentRunner.run_agent_streamed, run on two event streams side by side
\* ------------------------------------------------------------------------
MaxEvents == 2      \* longest event stream

\* The events of the stream: their type, the type of their item, and
\* whether ItemHelpers.text_message_output (or the print) works for it.
StreamEvent(type, item, text) == [type |-> type, item |-> item, text |-> text]
StreamEvents ==
    { StreamEvent("raw_response_event", "none", "none"),
      StreamEvent("run_item_stream_event", "tool_call_item", "none"),
      StreamEvent("run_item_stream_event", "message_output_item", "ok"),
      StreamEvent("run_item_stream_event", "message_output_item", "fails") }

\* the except clause re-raises
_handle_stream_event_raises(e) ==
    IF e.type = "run_item_stream_event" /\ e.item = "message_output_item"
    THEN IF e.text = "ok"
         THEN [raised |-> "none", panel |-> <<"Agent">>]
         ELSE [raised |-> "Exception", panel |-> <<>>]
    ELSE [raised |-> "none", panel |-> <<>>]

\* if event.type == ... and event.item.type == ...: try: text = ...;
\* print(Panel(text)) except Exception: pass
_handle_stream_event(e) ==
    IF e.type = "run_item_stream_event" /\ e.item = "message_output_item"
    THEN IF e.text = "ok"
         THEN [raised |-> "none", panel |-> <<"Agent">>]
         ELSE [raised |-> Uncaught("Exception"), panel |-> <<>>]
    ELSE [raised |-> "none", panel |-> <<>>]

\* How many events run r has taken from its stream.
Consumed(r) == Cardinality({i \in 1..Len(control[r]) : control[r][i] = "handle"})

\* Two streams of the same length with any events; the import of line 46
\* has worked and Runner.run_streamed has returned the handle.
InitStream ==
    /\ driver = "stream"
    /\ pc = "stream"
    /\ exc = "none"
    /\ external_url = NoUrl
    /\ airtable = FALSE
    /\ server_process = 0
    /\ server_url = NoUrl
    /\ startRet = NoUrl
    /\ proc = [p \in AllPids |-> "unborn"]
    /\ listening = FALSE
    /\ answered = FALSE
    /\ toOpen = <<>>
    /\ open = <<>>
    /\ trace = <<>>
    /\ nCalls = 0
    /\ now = 0
    /\ deadline = 0
    /\ probeRet = "none"
    /\ lastStatus = 0
    /\ output_text = <<>>
    /\ payload = NoVal
    /\ records = Unset
    /\ sock = 0
    /\ taken = {}
    /\ ports = <<>>
    /\ cfg = NoCfg
    /\ sources = <<>>
    /\ cursor = 0
    /\ running = {}
    /\ outputs = <<>>
    /\ all_records = <<>>
    /\ created = <<>>
    /\ \E n \in 0..MaxEvents : events \in [Runs -> [1..n -> StreamEvents]]
    /\ control = NoRuns
    /\ returned = [r \in Runs |-> "pending"]
    /\ panels = NoRuns

streamFrame == <<cfgVars, parseVars, allocVars, mainVars, envVars, mgrVars,
                 sessVars, pc, exc, trace, nCalls, probeVars>>

\* async for event in streamed.stream_events():
\*     await self._handle_stream_event(event)
StreamHandle(r) ==
    /\ pc = "stream"
    /\ returned[r] = "pending"
    /\ Consumed(r) < Len(events[r])
    /\ LET h == _handle_stream_event(events[r][Consumed(r) + 1])
       IN  /\ panels' = [panels EXCEPT ![r] = @ \o h.panel]
           /\ control' = [control EXCEPT ![r] =
                             @ \o <<"handle">>
                               \o (IF h.raised = "none" THEN <<>> ELSE <<"raise">>)]
           /\ returned' = [returned EXCEPT ![r] =
                             IF h.raised = "none" THEN @ ELSE h.raised]
    /\ UNCHANGED <<streamFrame, events>>

\* the stream is exhausted: return streamed
StreamReturn(r) ==
    /\ pc = "stream"
    /\ returned[r] = "pending"
    /\ Consumed(r) = Len(events[r])
    /\ control' = [control EXCEPT ![r] = @ \o <<"return">>]
    /\ returned' = [returned EXCEPT ![r] = "streamed"]
    /\ UNCHANGED <<streamFrame, events, panels>>

NextStream ==
    \/ \E r \in Runs : StreamHandle(r)
    \/ \E r \in Runs : StreamReturn(r)

SpecStream == InitStream /\ [][NextStream]_vars

\* ------------------------------------------------------------------------
\* the runs of the two entry points under fair scheduling
\* ------------------------------------------------------------------------
\* The runs that spawn: no external endpoint is configured.
InitLive == Init /\ driver \in {"cms", "poc"} /\ external_url = NoUrl

\* A process that was sent SIGKILL exits, also after the run has ended.
KilledExit ==
    \E p \in Pids :
        /\ proc[p] = "killed"
        /\ proc' = [proc EXCEPT ![p] = "dead"]
        /\ listening' = IF p = server_process THEN FALSE ELSE listening
        /\ UNCHANGED <<cfgVars, parseVars, allocVars, mainVars, streamVars,
                       envVars, pc, exc, server_process, server_url, startRet,
                       sessVars, trace, nCalls, probeVars>>

\* The steps of the single foreground task.
TaskStep ==
    \/ CmsImport \/ CmsImportFails \/ CmsConstruct
    \/ \E o \in StopOutcomes : CmsFinally(o)
    \/ StartSpawn \/ StartSpawnFails
    \/ StartGraceOver \/ StartCancelled
    \/ Enter \/ EnterFails \/ Body \/ Exit
    \/ PocMissingKey \/ PocSdkMissing \/ PocConfigOk
    \/ PocSpawn \/ PocSpawnFails \/ PocInterrupted
    \/ PocConstruct \/ PocStdioMissing
    \/ \E o \in PocOutcomes : PocFinally(o)
    \/ ProbeRespond \/ ProbeHttpError \/ ProbeRetry \/ ProbeTimeout

NextLive == TaskStep \/ ProcExit \/ ProcListen \/ KilledExit

\* The task is never suspended forever while it can take a step, and a
\* killed process exits.
SpecLive == InitLive /\ [][NextLive]_vars /\ WF_vars(TaskStep) /\ WF_vars(KilledExit)



\* ------------------------------------------------------------------------
\* properties
\* ------------------------------------------------------------------------
Idx == 1..Len(trace)
Has(e) == \E i \in Idx : trace[i].ev = e
Count(e) == Cardinality({i \in Idx : trace[i].ev = e})
Spawned == Has("spawn")
Raised == pc = "done" /\ exc # "none"

\* C1: in a run that spawned the tool server and ends with an exception
\* reaching the caller, every session that was opened has been closed and
\* stop has run by then.
C1_TeardownBeforePropagation ==
    (Raised /\ Spawned) =>
        /\ open = <<>>
        /\ \A i \in Idx : trace[i].ev = "open" =>
              \E j \in Idx : j > i /\ trace[j].ev = "close" /\ trace[j].arg = trace[i].arg
        /\ Has("stop")

\* the agent loop raised after the server was ready, and the run is over
C1_Witness ==
    /\ Raised /\ Spawned
    /\ \E i \in Idx : trace[i].ev = "body" /\ trace[i].arg = "Exception"
    /\ Has("close") /\ Has("stop")

\* C2: no shutdown signal is sent while a session is open, and every session
\* open and close comes before the first signal.
C2_CloseBeforeSignal ==
    /\ open # <<>> => ~Has("sig")
    /\ \A i, j \in Idx :
          (trace[i].ev = "sig" /\ trace[j].ev \in {"open", "close"}) => j < i

\* a session was closed and the spawned process signalled afterwards
C2_Witness ==
    \E i, j \in Idx :
        /\ i < j
        /\ trace[i].ev = "close" /\ trace[i].arg = "playwright"
        /\ trace[j].ev = "sig" /\ trace[j].pid \in Pids

\* C3: a finished run that spawned a process ran stop exactly once.
C3_StopExactlyOnce ==
    (pc = "done" /\ Spawned) => Count("stop") = 1

\* C4: with an external endpoint configured, start returns that URL and
\* nothing else, no process is spawned, the handle stays empty and the
\* start never waits.
C4_ExternalStartReturnsUrl ==
    external_url # NoUrl =>
        /\ server_process = 0
        /\ ~Spawned
        /\ startRet \in {NoUrl, external_url}
        /\ server_url \in {NoUrl, external_url}
        /\ pc \notin {"grace", "probe"}
        /\ \A i \in Idx : trace[i].ev = "start_ret" => trace[i].arg = external_url

\* start has returned the external URL
C4_Witness ==
    /\ external_url = ExternalUrl
    /\ startRet = ExternalUrl
    /\ Has("start_ret")

\* C5: with an external endpoint configured and nothing spawned, stop sends
\* no signal to any process.
C5_ExternalStopIsNoOp ==
    (external_url # NoUrl /\ ~Spawned) => ~Has("sig")

\* C6: stop never raises an error, and no signal goes to a process after a
\* stop confirmed its exit.
C6_StopIdempotent ==
    /\ \A i \in Idx : trace[i].ev = "stop_raise" => trace[i].arg # "Exception"
    /\ \A i, j \in Idx :
          (i < j /\ trace[i].ev = "exited" /\ trace[j].ev = "sig")
              => trace[j].pid # trace[i].pid

\* stop confirmed the exit of the process and was called again right after
C6_Witness ==
    /\ driver = "calls"
    /\ \E i, j \in Idx :
          /\ i < j
          /\ trace[i].ev = "exited"
          /\ trace[j].ev = "stop"
          /\ \A k \in (i + 1)..(j - 1) : trace[k].ev = "sig"

\* C7: a start that finds its process exited at the end of the grace period
\* raises and does not return an endpoint.
C7_ExitedInGraceFails ==
    \A i \in Idx :
        (trace[i].ev = "poll" /\ trace[i].arg = "exited") =>
            /\ \E j \in Idx : j > i /\ trace[j].ev = "start_raise"
                                /\ trace[j].pid = trace[i].pid
            /\ \A j \in Idx : trace[j].ev = "start_ret" => trace[j].pid # trace[i].pid
            /\ driver = "cms" => startRet = NoUrl

\* the process had exited when the grace period ended
C7_Witness ==
    \E i \in Idx : trace[i].ev = "poll" /\ trace[i].arg = "exited"

\* C8: start returns the endpoint of a spawned server, and a session to it is
\* open, only after the readiness probe got a response.
C8_SessionOnlyAfterProbe ==
    /\ startRet = ManagedUrl => probeRet = "true"
    /\ (server_url = ManagedUrl /\ \E k \in 1..Len(open) : open[k] = "playwright")
          => probeRet = "true"

\* C9: a finished run whose spawned process was running after startup and
\* whose endpoint never answered ended with an error, returned no endpoint,
\* opened no session and stopped the process.
C9_NoAnswerMeansTimeoutFailure ==
    LET aliveAfterStartup ==
            \A i \in Idx : trace[i].ev = "poll" => trace[i].arg = "running"
    IN  (pc = "done" /\ Spawned /\ aliveAfterStartup /\ ~answered) =>
            /\ exc # "none"
            /\ startRet = NoUrl
            /\ ~Has("open")
            /\ \E i \in Idx : trace[i].ev = "stop" /\ trace[i].pid \in Pids

\* C10 as stated: a probe of an endpoint that never answers returns false no
\* earlier than the deadline and no later than one poll interval after it.
C10_WithinOnePoll ==
    (probeRet = "false" /\ ~answered) =>
        /\ deadline <= now
        /\ now <= deadline + PollTicks

\* C10 amended: ... and earlier than the deadline plus the longest failed
\* attempt plus one poll interval.
C10_WithinAttemptAndPoll ==
    (probeRet = "false" /\ ~answered) =>
        /\ deadline <= now
        /\ now < deadline + MaxAttemptTicks + PollTicks

\* the probe gave up on a silent endpoint, the last attempt having run long
C10_Witness ==
    /\ driver = "probe"
    /\ probeRet = "false" /\ ~answered
    /\ deadline > 0
    /\ now = deadline + MaxAttemptTicks + PollTicks - 1

\* C11: once the probe has received a response, whatever its status, it has
\* returned true.
C11_AnyResponseIsReady ==
    lastStatus # 0 => probeRet = "true"

\* C12: a call of the probe never raises, whatever its request attempts fail
\* with: while it has not returned it is still in its loop, it ends with a
\* return value, and it returns false only once the deadline has passed.
C12_FailuresNeverRaise ==
    driver = "probe" =>
        /\ exc = "none"
        /\ probeRet = "none" => pc = "probe"
        /\ pc = "done" => probeRet \in {"true", "false"}
        /\ probeRet = "false" => now >= deadline

\* attempts failed, each followed by its sleep, until the deadline had passed
C12_Witness ==
    /\ driver = "probe"
    /\ pc = "done" /\ probeRet = "false"
    /\ deadline > 0 /\ now > deadline

\* C13: while a session to the tool server is open, the server is an external
\* endpoint or a spawned process that the manager holds and that is alive.
C13_OpenSessionHasLiveServer ==
    (\E k \in 1..Len(open) : open[k] = "playwright") =>
        \/ server_url = ExternalUrl
        \/ /\ server_process \in Pids
           /\ proc[server_process] = "alive"

\* an interrupt reached the run: the grace wait or the agent loop was
\* cancelled, or stop itself was interrupted
Interrupted ==
    \E i \in Idx : trace[i].arg \in {"CancelledError", "BaseException"}

\* C14: a finished run that spawned a process and was interrupted, no signal
\* step having failed, has sent a shutdown signal to that process unless the
\* process exited by itself.
C14_InterruptedRunSignals ==
    (driver = "cms" /\ pc = "done" /\ Interrupted /\ ~Has("warning")) =>
        \A i \in Idx : trace[i].ev = "spawn" =>
            \/ proc[trace[i].pid] = "dead"
            \/ \E j \in Idx : j > i /\ trace[j].ev = "sig"
                                /\ trace[j].pid = trace[i].pid

\* the characters of the final text from its first "[" to its last "]"
Bracketed(text) ==
    SubSeq(text, Find(text, "[") + 1, RFind(text, "]") + 1)

\* C15: from a final text made of one well-formed JSON array between
\* narrations free of brackets, the extraction returns the elements of the
\* array, in order.
C15_ArrayInNarrationExtracted ==
    (pc = "done" /\ payload.t = "list") => records = ListResult(payload.items)

\* an array of two elements, one holding a bracket, narration on both sides
C15_Witness ==
    /\ pc = "done" /\ payload.t = "list"
    /\ Len(payload.items) = 2
    /\ \E k \in 1..2 : payload.items[k] = StrVal(<<"]">>)
    /\ Head(output_text) = "x" /\ output_text[Len(output_text)] = "x"
    /\ records.kind = "list"

\* C16: from a final text that is empty, has no "[", has no "]", has its last
\* "]" before its first "[", or whose bracketed part does not decode to a
\* list, the extraction returns no records and raises nothing.
C16_NoPayloadNoRecords ==
    LET text == output_text
        noPayload ==
            \/ text = <<>>
            \/ Find(text, "[") = -1
            \/ Find(text, "]") = -1
            \/ RFind(text, "]") <= Find(text, "[")
            \/ ~Decode(Bracketed(text)).ok
            \/ Decode(Bracketed(text)).val.t # "list"
    IN  (pc = "done" /\ driver = "parse" /\ noPayload) =>
            /\ records = NoneResult
            /\ exc = "none"

\* brackets in the right order around something that is no JSON
C16_Witness ==
    /\ pc = "done" /\ driver = "parse"
    /\ output_text = <<"x", "[", "x", "]">>
    /\ records = NoneResult

\* C17 as stated: when a call has returned, the socket is closed, the port
\* returned is bound by no socket, and no two successive calls returned the
\* same port.
C17_ReleasedAndDistinct ==
    (driver = "alloc" /\ pc = "alloc_idle") =>
        /\ sock = 0
        /\ ports # <<>> => ports[Len(ports)] \notin taken \cup {sock}
        /\ \A i \in 1..(Len(ports) - 1) : ports[i] # ports[i + 1]

\* C17 amended: when a call has returned, the socket is closed and the port
\* returned is bound by no socket.
C17_Released ==
    (driver = "alloc" /\ pc = "alloc_idle") =>
        /\ sock = 0
        /\ ports # <<>> => ports[Len(ports)] \notin taken \cup {sock}

\* two calls have returned, with other ports of the host in use
C17_Witness ==
    /\ driver = "alloc" /\ pc = "alloc_idle"
    /\ Len(ports) = 2
    /\ taken # {}

\* the signals sent through the Popen handle
HandleSignals == {"INT", "TERM", "KILL"}

\* no signal goes through the handle of a process after a wait on it returned
NoSignalAfterExit ==
    \A i, j \in Idx :
        (i < j /\ trace[i].ev = "exited" /\ trace[j].ev = "sig"
               /\ trace[j].arg \in HandleSignals)
            => trace[j].pid # trace[i].pid

\* trace[i] comes right after the events a, b, the three about one process
Follows(i, a, b) ==
    /\ i > 2
    /\ trace[i - 2] = Ev(a[1], a[2], trace[i].pid)
    /\ trace[i - 1] = Ev(b[1], b[2], trace[i].pid)

\* C18 as stated: within a stop, interrupt is the first signal, terminate is
\* sent only right after the first wait on the interrupted process timed out,
\* kill only right after the second wait on the terminated process timed out,
\* and no signal is sent to a process once a wait on it returned.
C18_EscalationOrder ==
    /\ NoSignalAfterExit
    /\ \A i \in Idx : trace[i].ev = "sig" =>
          CASE trace[i].arg = "INT"  -> i > 1 /\ trace[i - 1].ev = "stop"
                                             /\ trace[i - 1].pid = trace[i].pid
            [] trace[i].arg = "TERM" ->
                   Follows(i, <<"sig", "INT">>, <<"timeout", "first">>)
            [] trace[i].arg = "KILL" ->
                   Follows(i, <<"sig", "TERM">>, <<"timeout", "second">>)
            [] OTHER -> TRUE

\* C18 amended: ... kill only right after the second wait timed out or, in
\* the finally block of agent_poc_agents_sdk.main, right after a step of the
\* escalation raised.
C18_EscalationOrderOrFallback ==
    /\ NoSignalAfterExit
    /\ \A i \in Idx : trace[i].ev = "sig" =>
          CASE trace[i].arg = "INT"  -> i > 1 /\ trace[i - 1].ev = "stop"
                                             /\ trace[i - 1].pid = trace[i].pid
            [] trace[i].arg = "TERM" ->
                   Follows(i, <<"sig", "INT">>, <<"timeout", "first">>)
            [] trace[i].arg = "KILL" ->
                   \/ Follows(i, <<"sig", "TERM">>, <<"timeout", "second">>)
                   \/ /\ driver = "poc"
                      /\ i > 1
                      /\ trace[i - 1] = Ev("except", "finally", trace[i].pid)
            [] OTHER -> TRUE

\* a stop of the manager went through the whole escalation
C18_Witness ==
    /\ driver = "cms"
    /\ \E i \in Idx : trace[i].ev = "sig" /\ trace[i].arg = "KILL"
                       /\ i > 1 /\ trace[i - 1].ev = "timeout"

\* C19: a stop of the manager that held a handle, and so cleared it, has
\* seen the process dead: a wait on it returned during the stop, or the poll
\* of start_server had found it exited.
C19_ClearedOnlyWhenConfirmedDead ==
    \A i \in Idx :
        (trace[i].ev = "stop" /\ trace[i].arg = "stop_server"
                              /\ trace[i].pid \in Pids) =>
            \/ \E j \in Idx : j > i /\ trace[j] = Ev("exited", "wait", trace[i].pid)
            \/ \E j \in Idx : j < i /\ trace[j] = Ev("poll", "exited", trace[i].pid)

\* something other than a failed step of stop made the run fail
FailedOtherwise ==
    \/ Has("start_raise") \/ Has("open_failed") \/ Has("close_failed")
    \/ \E i \in Idx : trace[i].ev = "body" /\ trace[i].arg # "none"
    \/ \E i \in Idx : trace[i].ev = "stop_raise" /\ trace[i].arg = "BaseException"

EvIdx(e) == {i \in Idx : trace[i].ev = e}

C24_NoRetryOfStartup ==
    /\ driver \in {"cms", "poc"} => Count("spawn") <= 1
    /\ driver \in {"cms", "poc"} =>
          \A i \in EvIdx("start_raise") : \A j \in EvIdx("spawn") : j < i
    /\ \A i, j \in EvIdx("spawn") :
          i < j => \E k \in (i + 1)..(j - 1) :
                      trace[k].ev \in {"start_ret", "start_raise"}

\* the process exited during the grace period, start raised, the run is over
C24_Witness ==
    /\ driver = "cms" /\ pc = "done"
    /\ \E i \in Idx : trace[i].ev = "start_raise" /\ trace[i].arg = "RuntimeError"
    /\ Count("spawn") = 1

\* C27: in a finished run that opened two sessions, the session opened last
\* was closed first, whatever the body and the closes raised, and every stop
\* came after both closes.
C27_ReverseOrderRelease ==
    (pc = "done" /\ Count("open") = 2) =>
        \E i, j \in EvIdx("open") : \E k, l \in EvIdx("close") :
            /\ i < j /\ j < k /\ k < l
            /\ trace[k].arg = trace[j].arg
            /\ trace[l].arg = trace[i].arg
            /\ Count("close") = 2
            /\ EvIdx("stop") # {}
            /\ \A m \in EvIdx("stop") : m > l

\* two sessions were open, the body raised and the first close failed
C27_Witness ==
    /\ pc = "done" /\ Count("open") = 2
    /\ \E i \in Idx : trace[i].ev = "body" /\ trace[i].arg = "Exception"
    /\ \E i \in Idx : trace[i].ev = "close_failed" /\ i < Len(trace)
                       /\ trace[i + 1].ev = "close"
    /\ server_process = 0 /\ Spawned

\* C28: whatever calls of start_server and stop_server were made on one
\* manager, every process it spawned and has not stopped is the one its
\* handle refers to.
C28_NoOrphanByOverwrite ==
    (driver = "calls" /\ pc = "idle") =>
        \A i \in Idx : trace[i].ev = "spawn" =>
            \/ server_process = trace[i].pid
            \/ \E j \in Idx : j > i /\ trace[j].ev = "stop"
                                /\ trace[j].pid = trace[i].pid

\* C21: when the agent run of a source raises, no agent run is started
\* again for that source, no later source is handled, and the exception
\* stays pending through the teardown (session closed, server stopped) and
\* is what the run ends with.
Teardown(i) ==
    \E j, k \in Idx :
        /\ i < j /\ j < k
        /\ trace[j].ev = "close" /\ trace[j].arg = "playwright"
        /\ trace[k].ev = "stop"

C21_AgentFailurePropagates ==
    \A i \in Idx : trace[i].ev = "agent_raise" =>
        /\ \A j \in Idx :
              j > i => trace[j].ev \notin {"agent_start", "agent_ret", "skip"}
        /\ \A j \in Idx :
              (trace[j].ev = "agent_start" /\ trace[j].pid = trace[i].pid)
                  => j < i /\ \A k \in Idx : (trace[k] = trace[j]) => k = j
        /\ exc # "none"
        /\ pc \in {"main_except", "done"} => Teardown(i)

C21_Witness ==
    /\ pc = "done"
    /\ exc = "Exception"
    /\ sources = <<"url", "url">>
    /\ \E i \in Idx : trace[i] = Ev("agent_raise", "Exception", 1) /\ Teardown(i)
    /\ \A i \in Idx : trace[i].ev \notin {"close_failed", "stop_raise"}

\* C22: a final output without a well-formed array in it (or no final
\* output at all) adds no record and raises nothing: the source is
\* reported as having no records, the delay and the next source follow, and
\* a run in which nothing else fails ends without an exception.
NoPayload(w) == w.items = <<>>
RetIdx(what) == {i \in Idx : trace[i].ev = "agent_ret" /\ trace[i].arg = what}
OtherFailure ==
    \E i \in Idx :
        \/ trace[i].ev \in {"agent_raise", "close_failed", "stop_raise"}
        \/ trace[i].ev = "delay" /\ trace[i].arg = "CancelledError"
        \/ trace[i].ev = "create_records" /\ trace[i].arg = "raise"

C22_NoPayloadIsNotFatal ==
    /\ RetIdx("parse_raise") = {}
    /\ Cardinality(RetIdx("no_records"))
           = Cardinality({k \in 1..Len(outputs) : NoPayload(outputs[k])})
    /\ (\A k \in 1..Len(outputs) : NoPayload(outputs[k])) => all_records = <<>>
    /\ \A i \in RetIdx("no_records") :
          /\ i = Len(trace) => pc = "delay" /\ exc = "none"
          /\ i < Len(trace) =>
                trace[i + 1].ev = "delay" /\ trace[i + 1].pid = trace[i].pid
          /\ \A j \in Idx :
                (j < Len(trace) /\ trace[j] = Ev("delay", "over", trace[i].pid)) =>
                    \/ trace[j + 1].ev \in {"agent_start", "skip"}
                          /\ trace[j + 1].pid = trace[i].pid + 1
                    \/ trace[j + 1].ev = "close" /\ trace[i].pid = Len(sources)
    /\ (pc = "done" /\ RetIdx("no_records") # {} /\ ~OtherFailure) => exc = "none"

C22_Witness ==
    /\ pc = "done"
    /\ exc = "none"
    /\ sources = <<"url", "url">>
    /\ Len(outputs) = 2
    /\ outputs[1].kind = "broken"
    /\ outputs[2].kind = "array"
    /\ created = <<outputs[2].items>>

\* C23: at most one agent run is in progress at any time, and when the
\* agent run of a source begins, the run of every earlier source has
\* returned and its delay is over (a cycle that was abandoned by an
\* exception is followed by no agent run at all).
C23_OneAgentRunAtATime ==
    /\ Cardinality(running) <= 1
    /\ running # {} => pc = "agent" /\ running = {cursor}
    /\ \A i, j \in Idx :
          (i < j /\ trace[i].ev = "agent_start" /\ trace[j].ev = "agent_start") =>
              /\ trace[i].pid < trace[j].pid
              /\ \E r, k \in (i + 1)..(j - 1) :
                    /\ r < k
                    /\ trace[r].ev = "agent_ret" /\ trace[r].pid = trace[i].pid
                    /\ trace[k] = Ev("delay", "over", trace[i].pid)

C23_Witness ==
    /\ pc = "agent"
    /\ running = {2}
    /\ \E i, j \in Idx :
          /\ i < j
          /\ trace[i] = Ev("agent_start", "run", 1)
          /\ trace[j] = Ev("agent_start", "run", 2)

RECURSIVE Collected(_)
Collected(ws) ==
    IF ws = <<>> THEN <<>> ELSE Head(ws).items \o Collected(Tail(ws))

C29_AllOrNothing ==
    /\ all_records = Collected(outputs)
    /\ Len(created) <= 1
    /\ Count("create_records") <= 1
    /\ Len(created) = Cardinality({i \in Idx : trace[i] = Ev("create_records", "ok", 0)})
    /\ created # <<>> =>
          /\ created[1] = Collected(outputs)
          /\ created[1] # <<>>
          /\ cursor = Len(sources)
          /\ Len(outputs) = Cardinality({n \in 1..Len(sources) : sources[n] = "url"})
          /\ \A a, b \in 1..Len(created[1]) : \A m, n \in 1..Len(sources) :
                (a < b /\ created[1][a] = Rec(m) /\ created[1][b] = Rec(n)) => m <= n
    /\ Has("agent_raise") => created = <<>> /\ ~Has("create_records")
    /\ (pc = "done" /\ Collected(outputs) = <<>>) => ~Has("create_records")

C29_Witness ==
    /\ pc = "done"
    /\ Len(created) = 1
    /\ \E a, b \in 1..Len(created[1]) :
          a < b /\ created[1][a] = Rec(1) /\ created[1][b] = Rec(2)

\* C30: a process is spawned and a session opened only in a run whose
\* validation passed, whose store is configured with a sources table and
\* whose fetch returned at least one source; in every other run main ends
\* (raising after a failed validation or fetch, returning otherwise)
\* having spawned nothing and opened nothing.
Fetched(what) == \E i \in Idx : trace[i] = Ev("fetch", what, 0)
ServerTouched ==
    \/ Spawned \/ Has("open") \/ Has("start_raise")
    \/ server_process # 0 \/ toOpen # <<>> \/ open # <<>>
    \/ \E p \in Pids : proc[p] # "unborn"

C30_SpawnOnlyWhenReady ==
    /\ (ServerTouched \/ pc = "start") =>
          cfg.valid /\ cfg.configured /\ cfg.table /\ sources # <<>> /\ Fetched("some")
    /\ (~cfg.valid \/ ~cfg.configured \/ ~cfg.table
            \/ Fetched("empty") \/ Fetched("raise")) =>
          /\ ~ServerTouched
          /\ pc \in {"main_validate", "main_config", "main_fetch", "main_except", "done"}
    /\ (pc = "done" /\ ~cfg.valid) => exc = "Exception"
    /\ (pc = "done" /\ cfg.valid /\ (~cfg.configured \/ ~cfg.table \/ Fetched("empty")))
          => exc = "none"

C30_Witness ==
    /\ pc = "done"
    /\ cfg.valid /\ cfg.configured /\ cfg.table
    /\ Fetched("empty")
    /\ sources = <<>>
    /\ ~ServerTouched

\* C26: two calls of run_agent_streamed on streams of the same length take
\* the same steps whatever the events are: neither ends with an
\* exception, each returns only after it handled every event of its
\* stream, at every moment the steps of one call are a prefix of the steps
\* of the other, and both return the same result.
IsPrefix(a, b) == Len(a) <= Len(b) /\ SubSeq(b, 1, Len(a)) = a

C26_EventsAreInformational ==
    /\ Len(events[1]) = Len(events[2])
    /\ \A r \in Runs :
          /\ returned[r] \in {"pending", "streamed"}
          /\ \A i \in 1..Len(control[r]) : control[r][i] # "raise"
          /\ returned[r] = "streamed" =>
                /\ Consumed(r) = Len(events[r])
                /\ control[r] = [i \in 1..(Len(events[r]) + 1) |->
                                   IF i <= Len(events[r]) THEN "handle" ELSE "return"]
    /\ IsPrefix(control[1], control[2]) \/ IsPrefix(control[2], control[1])
    /\ (\A r \in Runs : returned[r] # "pending") =>
          control[1] = control[2] /\ returned[1] = returned[2]

C26_Witness ==
    /\ returned = [r \in Runs |-> "streamed"]
    /\ Len(events[1]) = MaxEvents
    /\ \E i \in 1..Len(events[1]) :
          /\ events[1][i].text = "fails"
          /\ events[2][i].type = "raw_response_event"
    /\ \A i \in 1..Len(events[2]) : events[2][i].text # "fails"
    /\ panels[1] # panels[2]

\* C31: given that a killed process exits, a stop waits at most twice for
\* its process and the teardown ends, and every process a run spawned is
\* eventually dead with no handle left on it.
Waits(p) == {i \in Idx : trace[i].ev \in {"timeout", "exited"} /\ trace[i].pid = p}

\* The manager's handle is set to None; the local handle of agent_poc main
\* is gone when main has returned.
Discarded(p) == server_process # p \/ (driver = "poc" /\ pc = "done")

C31_StopEndsAndProcessDies ==
    /\ [](\A p \in Pids : Cardinality(Waits(p)) <= 2)
    /\ (pc = "finally") ~> (pc = "done")
    /\ \A p \in Pids :
          (proc[p] \in {"alive", "killed"}) ~> (proc[p] = "dead" /\ Discarded(p))

====
